---- MODULE Spec2Model ----
(***************************************************************************)
(* Model of the assessment wizard of andru-assessment-frontend:            *)
(* AssessmentPage (src/app/assessment/page.tsx, the version with real-time *)
(* AI insights, lines 588-1267) together with the SmartInsights overlay    *)
(* (src/components/SmartInsights.tsx).                                     *)
(*                                                                         *)
(* Question ids "q1".."q14" are written 1..14; the question at catalog     *)
(* index i has id i+1.  A React state update and the render + effects it   *)
(* causes are one atomic step.  An asynchronous insight request is an      *)
(* entry of requests: it is issued inside handleResponse, keeps the values *)
(* its closure captured, and is settled later by its own step.  The live   *)
(* score and the hasShown flags only feed rendering and are left out.      *)
(*                                                                         *)
(* page.tsx also holds the earlier version of AssessmentPage (lines 1-587, *)
(* no AI insights): its handlers that differ are modelled under the names  *)
(* ending in V1 and run by SpecV1.                                         *)
(***************************************************************************)
EXTENDS Integers, Sequences, FiniteSets, TLC

\* ---------------------------------------------------------------- bounds
\* total number of text-generation requests issued in one session
MaxRequests == 3
\* the clock is advanced at most this many times
MaxTime == 1
\* Previous is used at most this many questions behind the first unanswered one
MaxBack == 2
\* the texts given to calculateBuyerGap have at most this many words
MaxWords == 2

\* at most this many of the answered questions took a long time
MaxSlow == 4

\* ------------------------------------------------------- program constants
NumQuestions == 14
TopRating == 4
Ratings == 1..TopRating
\* No branch of the page or of the overlay depends on a rating, so the user
\* varies the rating (between the two ends of the scale) on these questions
\* only and gives the top rating elsewhere.
VariedQuestions == {4}
VariedRatings == {1, TopRating}
Null == [kind |-> "null"]

VARIABLES
  showProductInput, productInfo, currentQuestion, responses,
  showComprehensiveResults, showUserForm, userInfo,
  questionStartTime, questionTimings, generatedContent, sessionId,
  aiInsights, isGeneratingInsight,
  currentInsight, isVisible, lastProgressMilestone,
  requests, now,
  generation,       \* the earlier version's asynchronous ICP generation
  questionShownAt,  \* history: the clock when the current question last became current
  call,             \* the last application of a pure function: name, arguments, result
  location,         \* the page the browser shows: "home" or "assessment"
  startAssessmentCall,  \* the startAssessment call of the home page's button
  sessionStorage    \* whether the item assessmentSessionId is stored

vars == <<showProductInput, productInfo, currentQuestion, responses,
          showComprehensiveResults, showUserForm, userInfo,
          questionStartTime, questionTimings, generatedContent, sessionId,
          aiInsights, isGeneratingInsight,
          currentInsight, isVisible, lastProgressMilestone,
          requests, now, generation, questionShownAt, call,
          location, startAssessmentCall, sessionStorage>>

pageVars == <<showProductInput, productInfo, currentQuestion, responses,
              showComprehensiveResults, showUserForm, userInfo,
              questionStartTime, questionTimings, generatedContent, sessionId,
              aiInsights, isGeneratingInsight>>

overlayVars == <<currentInsight, isVisible, lastProgressMilestone>>

homeVars == <<location, startAssessmentCall, sessionStorage>>

\* what no handler of the page with AI insights touches
otherVars == <<generation, call, homeVars>>

\* ------------------------------------------------------------- helpers
EmptyMap == [q \in {} |-> 0]

\* { ...m, [k]: v }
Put(m, k, v) == [q \in (DOMAIN m) \cup {k} |-> IF q = k THEN v ELSE m[q]]

\* m[k] || 0
GetOr0(m, k) == IF k \in DOMAIN m THEN m[k] ELSE 0

\* Object.keys(responses).length
AnsweredQuestions(resp) == Cardinality(DOMAIN resp)

RECURSIVE SumOver(_, _)
SumOver(m, S) ==
  IF S = {} THEN 0
  ELSE LET k == CHOOSE x \in S : TRUE IN m[k] + SumOver(m, S \ {k})

\* The view the page renders: the order of the early returns of AssessmentPage.
StepOf(comprehensiveResults, productInput, userForm) ==
  IF comprehensiveResults THEN "Results"
  ELSE IF productInput THEN "ProductInput"
  ELSE IF userForm THEN "UserInfo"
  ELSE "Assessment"

Step == StepOf(showComprehensiveResults, showProductInput, showUserForm)

\* variant: the user form opened one question early
IsSecondToLastQuestion == currentQuestion = NumQuestions - 2

IsLastQuestion == currentQuestion = NumQuestions - 1

\* ------------------------------------------------------ insight requests
BatchStart(batchNumber) == IF batchNumber = 1 THEN 0 ELSE IF batchNumber = 2 THEN 4 ELSE 9
BatchEnd(batchNumber) == IF batchNumber = 1 THEN 4 ELSE IF batchNumber = 2 THEN 9 ELSE 14

\* questions.slice(start, end) as question ids
BatchSlice(batchNumber) == (BatchStart(batchNumber) + 1)..BatchEnd(batchNumber)

getBatchResponses(batchNumber, currentResponses) ==
  [q \in BatchSlice(batchNumber) |-> GetOr0(currentResponses, q)]

\* The closure of generateRealtimeInsight belongs to the render in which
\* handleResponse was called: it sees that render's responses and aiInsights.
NewRequest(batchNumber) ==
  [batchNumber |-> batchNumber,
   responses |-> getBatchResponses(batchNumber, responses),
   previousInsights |-> aiInsights,
   status |-> "pending"]

generateRealtimeInsight(batchNumber) ==
  IF sessionId = "" \/ productInfo = "null"
  THEN UNCHANGED <<requests, isGeneratingInsight>>
  ELSE /\ isGeneratingInsight' = TRUE
       /\ requests' = Append(requests, NewRequest(batchNumber))

\* variant: the milestones compared with the 0-based index values
TriggeredBatchAtIndex(questionNumber) ==
  IF questionNumber = 3 THEN 1
  ELSE IF questionNumber = 8 THEN 2
  ELSE IF questionNumber = 13 THEN 3
  ELSE 0

\* the batch handleResponse triggers for a question number, 0 for none
TriggeredBatch(questionNumber) ==
  IF questionNumber = 4 THEN 1
  ELSE IF questionNumber = 9 THEN 2
  ELSE IF questionNumber = 14 THEN 3
  ELSE 0

\* ------------------------------------------------ SmartInsights overlay
\* progress = answeredQuestions / totalQuestions * 100, compared without division
CurrentMilestone(answered) ==
  IF answered * 100 >= 75 * NumQuestions THEN 75
  ELSE IF answered * 100 >= 50 * NumQuestions THEN 50
  ELSE IF answered * 100 >= 25 * NumQuestions THEN 25
  ELSE 0

MilestoneBatch(milestone) ==
  IF milestone = 25 THEN 1 ELSE IF milestone = 50 THEN 2 ELSE IF milestone = 75 THEN 3 ELSE 0

\* variant: the most recent insight, whatever its batch
FindLatestInsight(insights, batchNumber) ==
  IF insights = <<>> THEN Null ELSE insights[Len(insights)]

\* aiInsights.find(insight => insight.batchNumber === batchNumber): first match
FindInsight(insights, batchNumber) ==
  LET hits == {i \in 1..Len(insights) : insights[i].batchNumber = batchNumber}
  IN  IF hits = {} THEN Null
      ELSE insights[CHOOSE i \in hits : \A j \in hits : i <= j]

\* timings.filter(t => t > avgTime * 1.5).length, avgTime = sum / n (0 when n = 0)
SlowQuestions(timings) ==
  LET n == Cardinality(DOMAIN timings)
      sum == SumOver(timings, DOMAIN timings)
  IN  Cardinality({q \in DOMAIN timings : 2 * n * timings[q] > 3 * sum})

Shown(source, milestone, type, req) ==
  [kind |-> "insight", source |-> source, milestone |-> milestone, type |-> type, req |-> req]

\* generatedContent is abstracted to what generateInsight reads of it:
\* whether icpGenerated is non-empty, how many buyer phrases its keywords
\* yield, and buyerGap (0 when missing).
\* variant: the completion pattern offered at every milestone
PatternInsightAnyMilestone(currentMilestone, timings, content) ==
  IF currentMilestone > 0
  THEN Shown("local", currentMilestone, "pattern", 0)
  ELSE Null

\* the pattern-based branch of generateInsight (no AI insight for the milestone)
PatternInsight(currentMilestone, timings, content) ==
  LET slowQuestions == SlowQuestions(timings)
  IN  IF currentMilestone = 25
        THEN Null
      ELSE IF currentMilestone = 50 /\ content.icpGenerated /\ content.buyerInsights > 0
        THEN IF content.buyerGap > 60 THEN Shown("local", 50, "gap", 0)
             ELSE IF content.buyerGap > 40 THEN Shown("local", 50, "pattern", 0)
             ELSE Shown("local", 50, "strength", 0)
      ELSE IF currentMilestone = 75
        THEN IF slowQuestions >= 3 THEN Shown("local", 75, "timing", 0)
             ELSE Shown("local", 75, "pattern", 0)
      ELSE Null

generateInsight(answered, insights, timings, content) ==
  LET currentMilestone == CurrentMilestone(answered)
      batchNumber == MilestoneBatch(currentMilestone)
      aiInsight == IF Len(insights) > 0 THEN FindInsight(insights, batchNumber) ELSE Null
  IN  IF aiInsight # Null
        THEN Shown("ai", currentMilestone, "pattern", aiInsight.req)
        ELSE PatternInsight(currentMilestone, timings, content)

\* The overlay is mounted only in the question view.  Its effect runs after
\* every render of the page (currentResults is a fresh object each render).
OverlayInit ==
  /\ currentInsight = Null
  /\ isVisible = FALSE
  /\ lastProgressMilestone = 0

\* step, resp, insights, timings: the page state of the render the effect follows
OverlayEffect(step, resp, insights, timings) ==
  IF step # "Assessment"
  THEN /\ currentInsight' = Null
       /\ isVisible' = FALSE
       /\ lastProgressMilestone' = 0
  ELSE LET answered == AnsweredQuestions(resp)
           currentMilestone == CurrentMilestone(answered)
           insight == generateInsight(answered, insights, timings, generatedContent)
       IN  IF currentMilestone > lastProgressMilestone /\ currentMilestone > 0 /\ insight # Null
           THEN /\ currentInsight' = insight
                /\ isVisible' = TRUE
                /\ lastProgressMilestone' = currentMilestone
           ELSE UNCHANGED overlayVars

\* what the overlay puts on screen
OverlayView ==
  IF Step # "Assessment" THEN "unmounted"
  ELSE IF isGeneratingInsight THEN "loading"
  ELSE IF currentInsight = Null \/ ~isVisible THEN "none"
  ELSE "insight"

\* ------------------------------------------------------------------ Init
InitAssessmentPage ==
  /\ showProductInput = TRUE
  /\ productInfo = "null"
  /\ currentQuestion = 0
  /\ responses = EmptyMap
  /\ showComprehensiveResults = FALSE
  /\ showUserForm = FALSE
  /\ userInfo = "null"
  /\ questionStartTime = 0
  /\ questionTimings = EmptyMap
  /\ generatedContent = [icpGenerated |-> FALSE, buyerInsights |-> 0, buyerGap |-> 0]
  /\ sessionId = ""
  /\ aiInsights = <<>>
  /\ isGeneratingInsight = FALSE
  /\ OverlayInit
  /\ requests = <<>>
  /\ now = 0
  /\ generation = "none"
  /\ questionShownAt = 0

\* the assessment page as the home page's button opens it
InitPage ==
  /\ InitAssessmentPage
  /\ location = "assessment"
  /\ startAssessmentCall = "succeeded"
  /\ sessionStorage = TRUE

\* the page as mounted; no pure function is being applied
Init ==
  /\ InitPage
  /\ call = [fn |-> "none"]

\* --------------------------------------------------------------- actions
\* variant: a rating scale that starts at 0
RatingChoicesFromZero(questionNumber) ==
  IF questionNumber \in VariedQuestions THEN {0, TopRating} ELSE {TopRating}

\* the ratings the user chooses from on a question: the buttons [4, 3, 2, 1]
RatingChoices(questionNumber) ==
  IF questionNumber \in VariedQuestions THEN VariedRatings ELSE {TopRating}

handleProductSubmit ==
  /\ Step = "ProductInput"
  /\ productInfo' = "set"
  /\ showProductInput' = FALSE
  /\ sessionId' = "set"
  /\ questionShownAt' = now
  /\ UNCHANGED <<currentQuestion, responses, showComprehensiveResults, showUserForm,
                 userInfo, questionStartTime, questionTimings, generatedContent,
                 aiInsights, isGeneratingInsight, requests, now>>
  /\ UNCHANGED otherVars
  /\ OverlayEffect(StepOf(showComprehensiveResults, FALSE, showUserForm),
                   responses, aiInsights, questionTimings)

\* variant: the rating buttons disabled while an insight is being generated
CanAnswerWhenIdle == Step = "Assessment" /\ ~isGeneratingInsight

\* The rating buttons are rendered whenever the question view is, and are
\* never disabled.
CanAnswer == Step = "Assessment"

\* handleResponse up to its state updates; the render they cause follows
handleResponsePage(value) ==
  /\ CanAnswer
  /\ LET questionId == currentQuestion + 1
         timeOnQuestion == now - questionStartTime
         newTimings == Put(questionTimings, questionId, timeOnQuestion)
         newResponses == Put(responses, questionId, value)
         questionNumber == currentQuestion + 1
         batch == TriggeredBatch(questionNumber)
     IN  /\ batch # 0 => Len(requests) < MaxRequests
         /\ questionTimings' = newTimings
         /\ responses' = newResponses
         /\ IF batch # 0
            THEN generateRealtimeInsight(batch)
            ELSE UNCHANGED <<requests, isGeneratingInsight>>
         /\ IF IsLastQuestion
            THEN /\ showUserForm' = TRUE
                 /\ UNCHANGED <<currentQuestion, questionStartTime, questionShownAt>>
            ELSE /\ currentQuestion' = currentQuestion + 1
                 /\ questionStartTime' = now
                 /\ questionShownAt' = now
                 /\ UNCHANGED showUserForm
  /\ UNCHANGED <<showProductInput, productInfo, showComprehensiveResults, userInfo,
                 generatedContent, sessionId, aiInsights, now>>
  /\ UNCHANGED otherVars

handleResponse(value) ==
  /\ handleResponsePage(value)
  /\ OverlayEffect(StepOf(showComprehensiveResults, showProductInput,
                          IsLastQuestion \/ showUserForm),
                   Put(responses, currentQuestion + 1, value), aiInsights,
                   Put(questionTimings, currentQuestion + 1, now - questionStartTime))

\* variant: Previous on the first question goes back to the product form
handlePreviousToProductInput ==
  /\ Step = "Assessment"
  /\ currentQuestion > 0 => AnsweredQuestions(responses) - (currentQuestion - 1) <= MaxBack
  /\ IF currentQuestion > 0
     THEN /\ currentQuestion' = currentQuestion - 1
          /\ questionShownAt' = now
          /\ UNCHANGED showProductInput
     ELSE /\ showProductInput' = TRUE
          /\ UNCHANGED <<currentQuestion, questionShownAt>>
  /\ UNCHANGED <<productInfo, responses, showComprehensiveResults,
                 showUserForm, userInfo, questionStartTime, questionTimings,
                 generatedContent, sessionId, aiInsights, isGeneratingInsight,
                 requests, now>>
  /\ UNCHANGED otherVars
  /\ OverlayEffect(StepOf(showComprehensiveResults, currentQuestion = 0, showUserForm),
                   responses, aiInsights, questionTimings)

handlePrevious ==
  /\ Step = "Assessment"
  /\ currentQuestion > 0 => AnsweredQuestions(responses) - (currentQuestion - 1) <= MaxBack
  /\ IF currentQuestion > 0
     THEN currentQuestion' = currentQuestion - 1 /\ questionShownAt' = now
     ELSE UNCHANGED <<currentQuestion, questionShownAt>>
  /\ UNCHANGED <<showProductInput, productInfo, responses, showComprehensiveResults,
                 showUserForm, userInfo, questionStartTime, questionTimings,
                 generatedContent, sessionId, aiInsights, isGeneratingInsight,
                 requests, now>>
  /\ UNCHANGED otherVars
  /\ OverlayEffect(Step, responses, aiInsights, questionTimings)

handleUserInfoSubmit ==
  /\ Step = "UserInfo"
  /\ userInfo' = "set"
  /\ showUserForm' = FALSE
  /\ showComprehensiveResults' = TRUE
  /\ UNCHANGED <<showProductInput, productInfo, currentQuestion, responses,
                 questionStartTime, questionTimings, generatedContent, sessionId,
                 aiInsights, isGeneratingInsight, requests, now, questionShownAt>>
  /\ UNCHANGED otherVars
  /\ OverlayEffect(StepOf(TRUE, showProductInput, FALSE),
                   responses, aiInsights, questionTimings)

\* The skip button of UserInfoForm calls its onSkip prop; this page renders
\* <UserInfoForm onSubmit={handleUserInfoSubmit} /> without one, so the
\* click has no handler and nothing happens.
onSkip ==
  /\ Step = "UserInfo"
  /\ UNCHANGED vars

\* The awaited call of request i settles.  "ok": a well-formed response for
\* the endpoint's batch; "reject": fetch or HTTP failure; "malformed": a
\* body without an insight, on which reading result.insight.* throws.
\* Everything after the await runs in the closure of the issuing render.
\* variant: the catch block stores a local fallback for batches 2 and 3
InsightsAfterWithFallback(i, outcome) ==
  IF outcome = "ok" \/ requests[i].batchNumber >= 2
  THEN Append(requests[i].previousInsights,
              [batchNumber |-> requests[i].batchNumber, req |-> i])
  ELSE aiInsights

\* aiInsights once request i has settled: setAiInsights([...aiInsights,
\* result.insight]) on success, nothing in the catch block.
InsightsAfter(i, outcome) ==
  IF outcome = "ok"
  THEN Append(requests[i].previousInsights,
              [batchNumber |-> requests[i].batchNumber, req |-> i])
  ELSE aiInsights

SettleRequest(i, outcome) ==
  /\ requests[i].status = "pending"
  /\ aiInsights' = InsightsAfter(i, outcome)
  /\ requests' = [requests EXCEPT ![i].status = IF outcome = "ok" THEN "ok" ELSE "failed"]
  /\ isGeneratingInsight' = FALSE
  /\ UNCHANGED <<showProductInput, productInfo, currentQuestion, responses,
                 showComprehensiveResults, showUserForm, userInfo, questionStartTime,
                 questionTimings, generatedContent, sessionId, now, questionShownAt>>
  /\ UNCHANGED otherVars
  /\ OverlayEffect(Step, responses, InsightsAfter(i, outcome), questionTimings)

\* the close button of the displayed insight
CloseInsight ==
  /\ OverlayView = "insight"
  /\ isVisible' = FALSE
  /\ UNCHANGED <<currentInsight, lastProgressMilestone, requests, now, questionShownAt>>
  /\ UNCHANGED otherVars
  /\ UNCHANGED pageVars

\* Date.now() advances
Tick ==
  /\ now < MaxTime
  /\ now' = now + 1
  /\ UNCHANGED <<requests, questionShownAt>>
  /\ UNCHANGED otherVars
  /\ UNCHANGED pageVars
  /\ UNCHANGED overlayVars

Next ==
  \/ handleProductSubmit
  \/ \E value \in RatingChoices(currentQuestion + 1) : handleResponse(value)
  \/ handlePrevious
  \/ handleUserInfoSubmit
  \/ onSkip
  \/ \E i \in 1..Len(requests), outcome \in {"ok", "reject", "malformed"} : SettleRequest(i, outcome)
  \/ CloseInsight

\* Spec: the events of a session, all within one reading of the clock.
Spec == Init /\ [][Next]_vars

\* SpecTimed: the user's steps with the clock advancing between them.  The
\* insight requests stay in flight: settling one reads and writes neither
\* the clock, the timer nor the timings.
NextTimed ==
  \/ handleProductSubmit
  \/ \E value \in RatingChoices(currentQuestion + 1) : handleResponse(value)
  \/ handlePrevious
  \/ handleUserInfoSubmit
  \/ Tick

SpecTimed == Init /\ [][NextTimed]_vars

\* handleResponse takes a number and has no check of it.  SpecUnvalidated
\* adds calls with a number off the scale to the session (on the questions
\* the rating is varied on).
OutOfScale == {0, TopRating + 1}

handleResponseOutOfScale ==
  /\ currentQuestion + 1 \in VariedQuestions
  /\ \E value \in OutOfScale : handleResponse(value)

NextUnvalidated == Next \/ handleResponseOutOfScale

SpecUnvalidated == Init /\ [][NextUnvalidated]_vars

\* ------------------------------------ the earlier version of the page
\* variant: the question view is opened only once the generation has settled
handleProductSubmitAfterGeneration ==
  /\ Step = "ProductInput"
  /\ generation = "none"
  /\ productInfo' = "set"
  /\ sessionId' = "set"
  /\ generation' = "importing"
  /\ UNCHANGED <<showProductInput, currentQuestion, responses, showComprehensiveResults,
                 showUserForm, userInfo, questionStartTime, questionTimings,
                 generatedContent, aiInsights, isGeneratingInsight, requests, now,
                 questionShownAt, call, homeVars>>
  /\ OverlayEffect(Step, responses, aiInsights, questionTimings)

\* handleProductSubmit of lines 84-156 up to its first await: the state
\* updates, then the try block that awaits import('../../services/webhookService').
handleProductSubmitV1 ==
  /\ Step = "ProductInput"
  /\ productInfo' = "set"
  /\ showProductInput' = FALSE
  /\ sessionId' = "set"
  /\ generation' = "importing"
  /\ questionShownAt' = now
  /\ UNCHANGED <<currentQuestion, responses, showComprehensiveResults, showUserForm,
                 userInfo, questionStartTime, questionTimings, generatedContent,
                 aiInsights, isGeneratingInsight, requests, now, call, homeVars>>
  /\ OverlayEffect(StepOf(showComprehensiveResults, FALSE, showUserForm),
                   responses, aiInsights, questionTimings)

\* The rest of handleProductSubmit (lines 84-156) after the await.  Either
\* the import rejects, or it resolves and line 116 reads newSessionId, a
\* const of the else block of lines 92-96 that is not in scope in the try
\* block: a ReferenceError (the build ignores type errors).  Both land in
\* the catch block, which only logs: generateEnhancedRealisticResources,
\* calculateBuyerGap and setGeneratedContent are never reached.
GenerationOutcomes == {"importRejected", "referenceError"}

generationSettles(outcome) ==
  /\ generation = "importing"
  /\ generation' = outcome
  /\ UNCHANGED <<requests, now, questionShownAt, call, homeVars>>
  /\ UNCHANGED pageVars
  /\ UNCHANGED overlayVars

\* handleResponse of lines 66-81: no insight request
handleResponseV1(value) ==
  /\ CanAnswer
  /\ questionTimings' = Put(questionTimings, currentQuestion + 1, now - questionStartTime)
  /\ responses' = Put(responses, currentQuestion + 1, value)
  /\ IF IsLastQuestion
     THEN /\ showUserForm' = TRUE
          /\ UNCHANGED <<currentQuestion, questionStartTime, questionShownAt>>
     ELSE /\ currentQuestion' = currentQuestion + 1
          /\ questionStartTime' = now
          /\ questionShownAt' = now
          /\ UNCHANGED showUserForm
  /\ UNCHANGED <<showProductInput, productInfo, showComprehensiveResults, userInfo,
                 generatedContent, sessionId, aiInsights, isGeneratingInsight,
                 requests, now>>
  /\ UNCHANGED otherVars
  /\ OverlayEffect(StepOf(showComprehensiveResults, showProductInput,
                          IsLastQuestion \/ showUserForm),
                   Put(responses, currentQuestion + 1, value), aiInsights,
                   Put(questionTimings, currentQuestion + 1, now - questionStartTime))

\* handleSkipUserInfo of lines 179-182, passed to UserInfoForm as onSkip
handleSkipUserInfo ==
  /\ Step = "UserInfo"
  /\ showUserForm' = FALSE
  /\ showComprehensiveResults' = TRUE
  /\ UNCHANGED <<showProductInput, productInfo, currentQuestion, responses, userInfo,
                 questionStartTime, questionTimings, generatedContent, sessionId,
                 aiInsights, isGeneratingInsight, requests, now, questionShownAt>>
  /\ UNCHANGED otherVars
  /\ OverlayEffect(StepOf(TRUE, showProductInput, FALSE),
                   responses, aiInsights, questionTimings)

\* handleUserInfoSubmit and handlePrevious read the same in both versions.
NextV1 ==
  \/ handleProductSubmitV1
  \/ \E outcome \in GenerationOutcomes : generationSettles(outcome)
  \/ \E value \in RatingChoices(currentQuestion + 1) : handleResponseV1(value)
  \/ handlePrevious
  \/ handleUserInfoSubmit
  \/ handleSkipUserInfo
  \/ CloseInsight

SpecV1 == Init /\ [][NextV1]_vars

\* ------------------------------------------------ JavaScript numbers
\* calculateScore adds decimal weights in IEEE 754 doubles.  Every double
\* met there is 0 or a multiple of 2^-51 between 1 and 128, and is written
\* as the record [n, e] of two integers that stands for
\*        n / 1600  +  e / (1600 * 2^51)        exactly:
\* n / 1600 is the decimal value meant and e the representation error.
\* The same record with any integers n, e stands for a real number.
RECURSIVE Pow2(_)
Pow2(k) == IF k = 0 THEN 1 ELSE 2 * Pow2(k - 1)

\* 2^k mod 25
RECURSIVE Pow2Mod25(_)
Pow2Mod25(k) == IF k = 0 THEN 1 ELSE (2 * Pow2Mod25(k - 1)) % 25

\* both as tables
PowersOf2 == [k \in 0..12 |-> Pow2(k)]

PowersOf2Mod25 == [k \in 0..46 |-> Pow2Mod25(k)]

\* x >= 2^k
AtLeastPow2(x, k) ==
  x.n > 1600 * PowersOf2[k] \/ (x.n = 1600 * PowersOf2[k] /\ x.e >= 0)

\* the binary exponent of x: 2^k <= x < 2^(k+1)
Exponent(x) == CHOOSE k \in 0..6 : AtLeastPow2(x, k) /\ ~AtLeastPow2(x, k + 1)

\* x modulo 2^(k-52), the spacing of the doubles of exponent k, in units of
\* 1 / (1600 * 2^51): (n * 2^51 + e) mod (800 * 2^k), where
\* n * 2^51 mod (25 * 2^(k+5)) = 2^(k+5) * (n * 2^(46-k) mod 25).
Remainder(x, k) ==
  (PowersOf2[k + 5] * ((x.n * PowersOf2Mod25[46 - k]) % 25) + x.e) % (800 * PowersOf2[k])

\* the double nearest to the real number x, ties to the even one
RoundToDouble(x) ==
  IF x.n = 0 /\ x.e = 0 THEN x
  ELSE LET k == Exponent(x)
           spacing == 800 * PowersOf2[k]
           rem == Remainder(x, k)
           down == [n |-> x.n, e |-> x.e - rem]
           up == [n |-> x.n, e |-> x.e + spacing - rem]
       IN  IF 2 * rem < spacing THEN down
           ELSE IF 2 * rem > spacing THEN up
           ELSE IF Remainder(x, k + 1) = rem THEN down ELSE up

\* the double of a decimal literal given in hundredths: 857 for 8.57
Literal(hundredths) == RoundToDouble([n |-> 16 * hundredths, e |-> 0])

\* (response / 4) * weight: response / 4 is exact, the product is rounded
QuarterTimes(response, weight) ==
  RoundToDouble([n |-> (response * weight.n) \div 4, e |-> (response * weight.e) \div 4])

\* x + y
DoubleAdd(x, y) == RoundToDouble([n |-> x.n + y.n, e |-> x.e + y.e])

\* Math.round(x): the nearest integer, a half rounded up
MathRound(x) ==
  LET q == (x.n + 800) \div 1600
  IN  IF (x.n + 800) % 1600 = 0 /\ x.e < 0 THEN q - 1 ELSE q

\* --------------------------------------------------------- calculateScore
\* variant: weights that add up to the 60% and 40% of the catalog's comments
assessmentQuestionsSixtyForty ==
  [i \in 1..NumQuestions |->
     [id |-> i,
      category |-> IF i \in 8..11 THEN "tech" ELSE "buyer",
      weight |-> IF i \in 8..11 THEN 1000 ELSE 600]]

\* the catalog: id "qi" written i, weight in hundredths
assessmentQuestions ==
  [i \in 1..NumQuestions |->
     [id |-> i,
      category |-> IF i \in 8..11 THEN "tech" ELSE "buyer",
      weight |-> IF i \in 8..11 THEN 1000 ELSE IF i = 14 THEN 858 ELSE 857]]

\* question.weight as doubles
Weights == [i \in 1..NumQuestions |-> Literal(assessmentQuestions[i].weight)]

\* buyerTotal and techTotal after the first i questions of the forEach
RECURSIVE Totals(_, _)
Totals(i, resp) ==
  IF i = 0
  THEN [buyerTotal |-> [n |-> 0, e |-> 0], techTotal |-> [n |-> 0, e |-> 0]]
  ELSE LET prev == Totals(i - 1, resp)
           question == assessmentQuestions[i]
           response == GetOr0(resp, question.id)
           points == QuarterTimes(response, Weights[i])
       IN  IF question.category = "buyer"
           THEN [prev EXCEPT !.buyerTotal = DoubleAdd(prev.buyerTotal, points)]
           ELSE [prev EXCEPT !.techTotal = DoubleAdd(prev.techTotal, points)]

\* variant: the overall score rounded up
OverallScoreCeil(totals) ==
  LET sum == DoubleAdd(totals.buyerTotal, totals.techTotal)
  IN  IF sum.n % 1600 = 0 /\ sum.e <= 0 THEN sum.n \div 1600 ELSE sum.n \div 1600 + 1

\* Math.round(buyerTotal + techTotal)
OverallScore(totals) == MathRound(DoubleAdd(totals.buyerTotal, totals.techTotal))

\* variant: Qualified only above 80
qualificationAbove80(overallScore) ==
  IF overallScore > 80 THEN "Qualified"
  ELSE IF overallScore >= 60 THEN "Promising"
  ELSE IF overallScore >= 40 THEN "Developing"
  ELSE "Early Stage"

\* variant: Qualified from 79 on
qualificationFrom79(overallScore) ==
  IF overallScore >= 79 THEN "Qualified"
  ELSE IF overallScore >= 60 THEN "Promising"
  ELSE IF overallScore >= 40 THEN "Developing"
  ELSE "Early Stage"

qualification(overallScore) ==
  IF overallScore >= 80 THEN "Qualified"
  ELSE IF overallScore >= 60 THEN "Promising"
  ELSE IF overallScore >= 40 THEN "Developing"
  ELSE "Early Stage"

calculateScore(resp) ==
  LET totals == Totals(NumQuestions, resp)
  IN  [buyerScore |-> MathRound(totals.buyerTotal),
       techScore |-> MathRound(totals.techTotal),
       overallScore |-> OverallScore(totals),
       qualification |-> qualification(OverallScore(totals))]

\* The response maps calculateScore is applied to: the questions answered
\* in catalog order up to any point, with the ratings of the two lowest
\* buttons or of the two ends of the scale.
RatingPairs == {{1, 2}, {1, TopRating}}

ScoreInputs == UNION {[1..n -> pair] : n \in 0..NumQuestions, pair \in RatingPairs}

\* SpecScore: calculateScore is about to be applied to one of these maps,
\* and then returns.
InitScore ==
  /\ InitPage
  /\ call \in {[fn |-> "calculateScore", args |-> resp] : resp \in ScoreInputs}

calculateScoreCall ==
  /\ call.fn = "calculateScore"
  /\ "result" \notin DOMAIN call
  /\ call' = [fn |-> "calculateScore", args |-> call.args,
               result |-> calculateScore(call.args)]
  /\ UNCHANGED <<requests, now, generation, questionShownAt, homeVars>>
  /\ UNCHANGED pageVars
  /\ UNCHANGED overlayVars

NextScore == calculateScoreCall

SpecScore == InitScore /\ [][NextScore]_vars

\* ------------------------------------------------------------------ Home
\* SpecHome: the session starts on the home page.  Its button calls
\* startAssessment and awaits the answer; the assessment page is opened only
\* by the handler of that button.
InitHome ==
  /\ InitAssessmentPage
  /\ call = [fn |-> "none"]
  /\ location = "home"
  /\ startAssessmentCall = "idle"
  /\ sessionStorage = FALSE

\* the click on "Start Assessment", up to the await (one call at a time)
onClickStart ==
  /\ location = "home"
  /\ startAssessmentCall # "pending"
  /\ startAssessmentCall' = "pending"
  /\ UNCHANGED <<location, sessionStorage, generation, call, requests, now,
                 questionShownAt>>
  /\ UNCHANGED pageVars
  /\ UNCHANGED overlayVars

\* the answers of the record store: success true, success false, and a
\* rejection (no connection, or a response that is not ok)
StartOutcomes == {"succeeded", "unsuccessful", "rejected"}

\* the rest of the click handler, after the await
startAssessmentSettles(outcome) ==
  /\ location = "home"
  /\ startAssessmentCall = "pending"
  /\ startAssessmentCall' = outcome
  /\ IF outcome = "succeeded"
       THEN /\ sessionStorage' = TRUE
            /\ location' = "assessment"
       ELSE \* alert('Failed to start assessment. Please try again.')
            UNCHANGED <<sessionStorage, location>>
  /\ UNCHANGED <<generation, call, requests, now, questionShownAt>>
  /\ UNCHANGED pageVars
  /\ UNCHANGED overlayVars

NextHome ==
  \/ onClickStart
  \/ \E outcome \in StartOutcomes : startAssessmentSettles(outcome)
  \/ (location = "assessment" /\ NextTimed)

SpecHome == InitHome /\ [][NextHome]_vars

\* ------------------------------------------------------ calculateBuyerGap
\* A string is the sequence of its characters.
toLowerCase(text) ==
  [i \in 1..Len(text) |-> IF text[i] = "D" THEN "d" ELSE text[i]]

IsWhitespace(char) == char = " "

\* text.split(/\s+/): the pieces between the runs of whitespace; a text that
\* starts or ends with whitespace (and the empty text) yields an empty piece
RECURSIVE split(_)
split(text) ==
  LET spaces == {i \in 1..Len(text) : IsWhitespace(text[i])}
  IN  IF spaces = {} THEN <<text>>
      ELSE LET first == CHOOSE i \in spaces : \A j \in spaces : i <= j
               rest == CHOOSE i \in (first + 1)..(Len(text) + 1) :
                         /\ i = Len(text) + 1 \/ ~IsWhitespace(text[i])
                         /\ \A j \in (first + 1)..(i - 1) : IsWhitespace(text[j])
           IN  <<SubSeq(text, 1, first - 1)>> \o split(SubSeq(text, rest, Len(text)))

\* string.includes(part)
includes(string, part) ==
  \E i \in 0..(Len(string) - Len(part)) : SubSeq(string, i + 1, i + Len(part)) = part

\* variant: words of 3 characters kept
LongWordsFrom3(text) ==
  SelectSeq(split(toLowerCase(text)), LAMBDA w : Len(w) >= 3)

\* text.toLowerCase().split(/\s+/).filter(w => w.length > 3)
LongWords(text) ==
  SelectSeq(split(toLowerCase(text)), LAMBDA w : Len(w) > 3)

\* Math.round((1 - part / whole) * 100) for whole > 0.  With fewer than 40
\* words the three double operations round as the exact value does.
RoundedGap(part, whole) == (200 * (whole - part) + whole) \div (2 * whole)

\* the numbers calculateBuyerGap returns: an integer, or NaN
Integer(value) == [isNaN |-> FALSE, value |-> value]

NaN == [isNaN |-> TRUE, value |-> 0]

\* Both word lists empty: 0 / 0 is NaN, which Math.round, Math.min and
\* Math.max hand on.
calculateBuyerGap(userDescription, aiGenerated) ==
  LET userWords == LongWords(userDescription)
      aiWords == LongWords(aiGenerated)
      overlap == SelectSeq(userWords, LAMBDA word :
                   \E k \in 1..Len(aiWords) :
                     includes(aiWords[k], word) \/ includes(word, aiWords[k]))
      longest == IF Len(aiWords) >= Len(userWords) THEN Len(aiWords) ELSE Len(userWords)
  IN  IF longest = 0 THEN NaN
      ELSE LET gap == RoundedGap(Len(overlap), longest)
               capped == IF gap > 75 THEN 75 ELSE gap
           IN  Integer(IF capped < 15 THEN 15 ELSE capped)

\* The texts calculateBuyerGap is applied to: up to MaxWords of these words
\* with one space between them.
Vocabulary ==
  { <<"t", "h", "e">>,
    <<"s", "o", "f", "t">>,
    <<"s", "o", "f", "t", "w", "a", "r", "e">>,
    <<"d", "a", "t", "a">>,
    <<"D", "a", "t", "a">> }

RECURSIVE Join(_)
Join(words) ==
  IF Len(words) = 0 THEN <<>>
  ELSE IF Len(words) = 1 THEN words[1]
  ELSE words[1] \o <<" ">> \o Join(Tail(words))

GapTexts == {Join(words) : words \in UNION {[1..n -> Vocabulary] : n \in 0..MaxWords}}

\* SpecGap: calculateBuyerGap is about to be applied to two of these texts,
\* and then returns.
InitGap ==
  /\ InitPage
  /\ call \in {[fn |-> "calculateBuyerGap", args |-> <<user, ai>>] :
                 user \in GapTexts, ai \in GapTexts}

calculateBuyerGapCall ==
  /\ call.fn = "calculateBuyerGap"
  /\ "result" \notin DOMAIN call
  /\ call' = [fn |-> "calculateBuyerGap", args |-> call.args,
               result |-> calculateBuyerGap(call.args[1], call.args[2])]
  /\ UNCHANGED <<requests, now, generation, questionShownAt, homeVars>>
  /\ UNCHANGED pageVars
  /\ UNCHANGED overlayVars

NextGap == calculateBuyerGapCall

SpecGap == InitGap /\ [][NextGap]_vars

\* ------------------------------------------------------ AssessmentResults
\* generatedContent.buyerGap when the property is absent
Undefined == [isNaN |-> FALSE, value |-> 0, isUndefined |-> TRUE]

\* number || 0
OrZero(number) == IF number = Undefined \/ number.isNaN THEN 0 ELSE number.value

\* Math.abs(a - b)
AbsDifference(a, b) == IF a >= b THEN a - b ELSE b - a

\* the first n elements: array.slice(0, n)
sliceFirst(array, n) == SubSeq(array, 1, IF Len(array) < n THEN Len(array) ELSE n)

\* timings.filter(t => t > avgTime * 1.5).length, avgTime being the mean of
\* the timings (0 without timings).  For whole seconds on 14 questions the
\* double comparison decides as the exact one does.
slowQuestions(timings) ==
  LET n == Cardinality(DOMAIN timings)
      sum == SumOver(timings, DOMAIN timings)
  IN  Cardinality({q \in DOMAIN timings : 2 * n * timings[q] > 3 * sum})

Challenge(name, severity) == [name |-> name, severity |-> severity]

\* The text icpGenerated is the set of the cue words it includes; the
\* absent and the empty text include none.
buyerGapChallenge(icpInsights) ==
  IF "enterprise" \in icpInsights \/ "complex" \in icpInsights
    THEN "Enterprise Buyer Complexity"
  ELSE IF "technical" \in icpInsights /\ "founder" \in icpInsights
    THEN "Technical Buyer Translation"
  ELSE IF "budget" \in icpInsights \/ "cost" \in icpInsights
    THEN "Economic Buyer Justification"
  ELSE "Buyer Profile Misalignment"

\* variant: every challenge is returned
generateChallengesUnsliced(results, timings, content) ==
  LET buyerTechGap == AbsDifference(results.buyerScore, results.techScore)
      buyerGap == OrZero(content.buyerGap)
      slow == slowQuestions(timings)
      pushed ==
        (IF buyerGap > 60
           THEN <<Challenge(buyerGapChallenge(content.icpGenerated), "high")>>
           ELSE <<>>)
        \o (IF results.overallScore < 70
              THEN <<Challenge("Revenue Foundation Building",
                               IF results.overallScore < 50 THEN "high" ELSE "medium")>>
              ELSE <<>>)
        \o (IF buyerTechGap > 15
              THEN <<Challenge(IF results.techScore > results.buyerScore
                                 THEN "Customer Empathy Development"
                                 ELSE "Technical Value Communication",
                               IF buyerTechGap > 25 THEN "high" ELSE "medium")>>
              ELSE <<>>)
        \o (IF slow >= 2
              THEN <<Challenge("Decision Confidence",
                               IF slow >= 4 THEN "high" ELSE "medium")>>
              ELSE <<>>)
        \o (IF results.overallScore >= 80
              THEN <<Challenge("Mastery Optimization", "low")>>
              ELSE <<>>)
  IN  IF Len(pushed) = 0
        THEN <<Challenge("Continuous Improvement", "medium")>>
        ELSE pushed

\* variant: the score challenge is pushed before the buyer gap challenge
generateChallengesScoreFirst(results, timings, content) ==
  LET all == generateChallengesUnsliced(results, timings, content)
  IN  sliceFirst(IF Len(all) >= 2 /\ all[2].name = "Revenue Foundation Building"
              THEN <<all[2], all[1]>> \o SubSeq(all, 3, Len(all))
              ELSE all, 3)

generateChallenges(results, timings, content) ==
  LET buyerTechGap == AbsDifference(results.buyerScore, results.techScore)
      buyerGap == OrZero(content.buyerGap)
      slow == slowQuestions(timings)
      challenges ==
        (IF buyerGap > 60
           THEN <<Challenge(buyerGapChallenge(content.icpGenerated), "high")>>
           ELSE <<>>)
        \o (IF results.overallScore < 70
              THEN <<Challenge("Revenue Foundation Building",
                               IF results.overallScore < 50 THEN "high" ELSE "medium")>>
              ELSE <<>>)
        \o (IF buyerTechGap > 15
              THEN <<Challenge(IF results.techScore > results.buyerScore
                                 THEN "Customer Empathy Development"
                                 ELSE "Technical Value Communication",
                               IF buyerTechGap > 25 THEN "high" ELSE "medium")>>
              ELSE <<>>)
        \o (IF slow >= 2
              THEN <<Challenge("Decision Confidence",
                               IF slow >= 4 THEN "high" ELSE "medium")>>
              ELSE <<>>)
        \o (IF results.overallScore >= 80
              THEN <<Challenge("Mastery Optimization", "low")>>
              ELSE <<>>)
  IN  sliceFirst(IF Len(challenges) = 0
              THEN <<Challenge("Continuous Improvement", "medium")>>
              ELSE challenges, 3)

\* timings.filter(t => t < 2000).length
quickAnswers(timings) == Cardinality({q \in DOMAIN timings : timings[q] < 2000})

\* the types of the insights pushed
generateHiddenInsights(results, timings) ==
  (IF quickAnswers(timings) > 8 /\ results.overallScore < 70
     THEN <<"unconscious-incompetence">> ELSE <<>>)
  \o <<"industry-comparison">>
  \o (IF AbsDifference(results.buyerScore, results.techScore) > 25
        THEN <<"aha-moment">> ELSE <<>>)

\* The props AssessmentResults is rendered with.  The scores are those of
\* some responses: overallScore is the sum of the two others.
BuyerScores == {9, 20, 35, 36, 45, 46, 60, 86}

TechScores == {10, 20, 40}

ResultsProps ==
  {[buyerScore |-> b, techScore |-> t, overallScore |-> b + t] :
     b \in BuyerScores, t \in TechScores}

LongTime == 10

\* the first questions answered, the last of them slowly
TimingsProps ==
  {[q \in 1..n |-> IF q <= n - slow THEN 1 ELSE LongTime] :
     n \in 0..NumQuestions, slow \in 0..MaxSlow}

ContentProps ==
  {[icpGenerated |-> cues, buyerGap |-> gap] :
     cues \in {{}, {"enterprise"}, {"technical", "founder"}, {"technical"}, {"budget"}},
     gap \in {Undefined, NaN, Integer(15), Integer(60), Integer(61), Integer(75)}}

\* SpecResults: AssessmentResults is about to be rendered with these props,
\* and then has computed its challenges and hidden insights.
InitResults ==
  /\ InitPage
  /\ call \in {[fn |-> "AssessmentResults", args |-> <<results, timings, content>>] :
                 results \in ResultsProps, timings \in TimingsProps,
                 content \in ContentProps}

AssessmentResults ==
  /\ call.fn = "AssessmentResults"
  /\ "result" \notin DOMAIN call
  /\ call' = [fn |-> "AssessmentResults", args |-> call.args,
               result |-> [challenges |-> generateChallenges(call.args[1], call.args[2],
                                                              call.args[3]),
                           hiddenInsights |-> generateHiddenInsights(call.args[1],
                                                                     call.args[2])]]
  /\ UNCHANGED <<requests, now, generation, questionShownAt, homeVars>>
  /\ UNCHANGED pageVars
  /\ UNCHANGED overlayVars

NextResults == AssessmentResults

SpecResults == InitResults /\ [][NextResults]_vars

\* -------------------------------------------------------------- ApiService
\* JavaScript values: strings, booleans and undefined; an object is the
\* sequence of its <<key, value>> properties in insertion order.
JSString(text) == [type |-> "string", value |-> text]

JSBoolean(bool) == [type |-> "boolean", value |-> bool]

undefined == [type |-> "undefined"]

\* A JSON text is the sequence of its tokens.
Punctuation(char) == [token |-> "punctuation", value |-> char]

StringToken(text) == [token |-> "string", value |-> text]

LiteralToken(bool) == [token |-> "literal", value |-> bool]

ValueToken(value) ==
  IF value.type = "string" THEN StringToken(value.value) ELSE LiteralToken(value.value)

RECURSIVE MemberTokens(_)
MemberTokens(properties) ==
  IF Len(properties) = 0 THEN <<>>
  ELSE <<StringToken(properties[1][1]), Punctuation(":"), ValueToken(properties[1][2])>>
       \o (IF Len(properties) = 1 THEN <<>>
           ELSE <<Punctuation(",")>> \o MemberTokens(Tail(properties)))

\* JSON.stringify(object): properties whose value is undefined are left out
JSONstringify(object) ==
  <<Punctuation("{")>>
  \o MemberTokens(SelectSeq(object, LAMBDA property : property[2] # undefined))
  \o <<Punctuation("}")>>

\* JSON.parse(text) of a text without a repeated key: the object, or a
\* SyntaxError
JSONparse(text) ==
  LET inner == SubSeq(text, 2, Len(text) - 1)
      count == (Len(inner) + 1) \div 4
      wellFormed ==
        /\ Len(text) >= 2
        /\ text[1] = Punctuation("{")
        /\ text[Len(text)] = Punctuation("}")
        /\ Len(inner) = 0 \/ Len(inner) = 4 * count - 1
        /\ \A i \in 1..Len(inner) :
             CASE i % 4 = 1 -> inner[i].token = "string"
               [] i % 4 = 2 -> inner[i] = Punctuation(":")
               [] i % 4 = 3 -> inner[i].token \in {"string", "literal"}
               [] OTHER -> inner[i] = Punctuation(",")
  IN  IF ~wellFormed THEN [error |-> "SyntaxError"]
      ELSE [error |-> "none",
            value |-> [i \in 1..(IF Len(inner) = 0 THEN 0 ELSE count) |->
                         <<inner[4 * i - 3].value,
                           IF inner[4 * i - 1].token = "string"
                             THEN JSString(inner[4 * i - 1].value)
                             ELSE JSBoolean(inner[4 * i - 1].value)>>]]

\* object.key
Property(object, key) ==
  IF \E i \in 1..Len(object) : object[i][1] = key
    THEN object[CHOOSE i \in 1..Len(object) : object[i][1] = key][2]
    ELSE undefined

\* process.env.NEXT_PUBLIC_API_URL || 'http://localhost:3001'; the variable
\* unset is the empty string
API_BASE_URL(env) == IF env = "" THEN "http://localhost:3001" ELSE env

\* { ...first, ...second }
Spread(first, second) ==
  [key \in (DOMAIN first) \cup (DOMAIN second) |->
     IF key \in DOMAIN second THEN second[key] ELSE first[key]]

NoOptions == [key \in {} |-> ""]

\* What fetch answers: a response (ok or not, with a body text) or a
\* rejection.  A url is the sequence of the pieces of its template literal.
Resolved(fetches, value) == [fetches |-> fetches, state |-> "resolved", value |-> value]

Rejected(fetches, message) ==
  [fetches |-> fetches, state |-> "rejected", message |-> message]

\* variant: fetch is called with the caller's options only
requestWithoutDefaults(baseUrl, endpoint, options, answer) ==
  LET fetches == <<[url |-> <<baseUrl>> \o endpoint, options |-> options]>>
  IN  IF answer.kind = "rejection" THEN Rejected(fetches, JSString("fetch failed"))
      ELSE LET body == JSONparse(answer.text)
           IN  IF ~answer.ok
                 THEN Rejected(fetches,
                        IF body.error = "none"
                             /\ Property(body.value, "message") \notin {undefined, JSString("")}
                          THEN Property(body.value, "message")
                          ELSE JSString("HTTP error! status"))
               ELSE IF body.error = "none"
                 THEN Resolved(fetches, body.value)
               ELSE Rejected(fetches, JSString("SyntaxError"))

\* ApiService.request(endpoint, options), given the answer of its fetch
request(baseUrl, endpoint, options, answer) ==
  LET url == <<baseUrl>> \o endpoint
      defaultOptions ==
        [key \in {"headers"} |->
           Spread([name \in {"Content-Type"} |-> "application/json"],
                  IF "headers" \in DOMAIN options THEN options["headers"] ELSE NoOptions)]
      fetches == <<[url |-> url, options |-> Spread(defaultOptions, options)]>>
  IN  IF answer.kind = "rejection" THEN Rejected(fetches, JSString("fetch failed"))
      ELSE LET body == JSONparse(answer.text)
           IN  IF ~answer.ok
                 THEN Rejected(fetches,
                        IF body.error = "none"
                             /\ Property(body.value, "message") \notin {undefined, JSString("")}
                          THEN Property(body.value, "message")
                          ELSE JSString("HTTP error! status"))
               ELSE IF body.error = "none"
                 THEN Resolved(fetches, body.value)
               ELSE Rejected(fetches, JSString("SyntaxError"))

PostOptions(data) ==
  [key \in {"method", "body"} |-> IF key = "method" THEN "POST" ELSE JSONstringify(data)]

\* the endpoint and the options of each method
Endpoint(method, argument) ==
  CASE method = "startAssessment" -> <<"/api/assessment/start">>
    [] method = "submitAssessment" -> <<"/api/assessment/submit">>
    [] method = "getWelcomeData" -> <<"/api/welcome/", argument>>
    [] method = "getHealth" -> <<"/api/health">>

MethodOptions(method, argument) ==
  IF method \in {"startAssessment", "submitAssessment"}
    THEN PostOptions(argument) ELSE NoOptions

\* The calls made: the method with its arguments, the environment
\* variable, and what fetch will answer.
ApiMethods == {"startAssessment", "submitAssessment", "getWelcomeData", "getHealth"}

SessionIds == {"A1", "B2"}

ApiArguments(method) ==
  CASE method = "startAssessment" ->
         {<<<<"sessionId", JSString(id)>>, <<"startTime", JSString(time)>>>> :
            id \in SessionIds, time \in {"T0", "T1"}}
    [] method = "submitAssessment" ->
         {<<<<"sessionId", JSString(id)>>, <<"userInfo", info>>>> :
            id \in SessionIds, info \in {undefined, JSString("Ann")}}
    [] method = "getWelcomeData" -> SessionIds
    [] method = "getHealth" -> {undefined}

ResponseTexts ==
  { JSONstringify(<<<<"success", JSBoolean(TRUE)>>, <<"sessionId", JSString("A1")>>>>),
    JSONstringify(<<<<"success", JSBoolean(FALSE)>>, <<"message", JSString("no record")>>>>),
    JSONstringify(<<<<"status", JSString("healthy")>>>>),
    JSONstringify(<<>>),
    <<Punctuation("{")>> }

FetchAnswers ==
  {[kind |-> "rejection"]}
  \cup {[kind |-> "response", ok |-> ok, text |-> text] :
          ok \in BOOLEAN, text \in ResponseTexts}

\* SpecApi: a method of ApiService is about to be called, and then has
\* settled.
InitApi ==
  /\ InitPage
  /\ \E method \in ApiMethods :
       call \in {[fn |-> method, args |-> <<argument, env, answer>>] :
                   argument \in ApiArguments(method),
                   env \in {"", "https://api.example"}, answer \in FetchAnswers}

ApiServiceCall ==
  /\ call.fn \in ApiMethods
  /\ "result" \notin DOMAIN call
  /\ call' = [fn |-> call.fn, args |-> call.args,
               result |-> request(API_BASE_URL(call.args[2]),
                                  Endpoint(call.fn, call.args[1]),
                                  MethodOptions(call.fn, call.args[1]),
                                  call.args[3])]
  /\ UNCHANGED <<requests, now, generation, questionShownAt, homeVars>>
  /\ UNCHANGED pageVars
  /\ UNCHANGED overlayVars

NextApi == ApiServiceCall

SpecApi == InitApi /\ [][NextApi]_vars

\* ======================================================================
\* Properties
\* ======================================================================
Pending(batchNumber) ==
  \E i \in 1..Len(requests) :
    requests[i].batchNumber = batchNumber /\ requests[i].status = "pending"

Failed(batchNumber) ==
  \E i \in 1..Len(requests) :
    requests[i].batchNumber = batchNumber /\ requests[i].status = "failed"

Succeeded(batchNumber) ==
  \E i \in 1..Len(requests) :
    requests[i].batchNumber = batchNumber /\ requests[i].status = "ok"

Stored(batchNumber) ==
  \E i \in 1..Len(aiInsights) : aiInsights[i].batchNumber = batchNumber

\* a step of handleResponse: the index advances, or the last question is answered
AnswerStep ==
  \/ currentQuestion' = currentQuestion + 1
  \/ ~showUserForm /\ showUserForm'

\* the batch of the request a step issues, 0 when it issues none
IssuedBatch ==
  IF Len(requests') = Len(requests) + 1
  THEN requests'[Len(requests')].batchNumber
  ELSE 0

\* C1: in every reachable state the stored insights hold at most one
\* Insight per batch number.
C1_OneInsightPerBatch ==
  \A i, j \in 1..Len(aiInsights) :
    i # j => aiInsights[i].batchNumber # aiInsights[j].batchNumber

\* C2: a request for a batch whose Insight is already stored never reaches
\* the text-generation service: no request is issued for a batch that
\* has an Insight among the insights stored at the time of the call.
C2_NoSecondInvocation ==
  \A i \in 1..Len(requests) :
    \A k \in 1..Len(requests[i].previousInsights) :
      requests[i].previousInsights[k].batchNumber # requests[i].batchNumber

\* C3 as stated: answering issues the request of batch 1, 2, 3 exactly when
\* the number of answered questions after the answer is 4, 9, 14.
C3_TriggerAtAnsweredCount ==
  [][ AnswerStep =>
        LET count == Cardinality(DOMAIN responses')
        IN  IssuedBatch = (IF count = 4 THEN 1 ELSE IF count = 9 THEN 2
                           ELSE IF count = 14 THEN 3 ELSE 0) ]_vars

\* C3 amended: answering issues the request of batch 1, 2, 3 exactly when
\* the question answered is question number 4, 9, 14 of the catalog, be it
\* answered for the first time or again; no other step issues a request.
C3_TriggerAtQuestionNumber ==
  [][ /\ AnswerStep =>
           LET questionNumber == currentQuestion + 1
           IN  IssuedBatch = (IF questionNumber = 4 THEN 1 ELSE IF questionNumber = 9 THEN 2
                              ELSE IF questionNumber = 14 THEN 3 ELSE 0)
      /\ ~AnswerStep => IssuedBatch = 0 ]_vars

\* C3 witness: question 4 has been answered again with five questions
\* answered, and a second batch-1 request is out.
C3_Witness ==
  /\ Cardinality(DOMAIN responses) = 5
  /\ Len(requests) = 2
  /\ requests[1].batchNumber = 1
  /\ requests[2].batchNumber = 1

\* the effect of answering the current question with value
AnswerTakesEffect(value) ==
  LET questionNumber == currentQuestion + 1
  IN  /\ questionNumber \in DOMAIN responses'
      /\ responses'[questionNumber] = value
      /\ IF questionNumber = 14
         THEN showUserForm' /\ ~showComprehensiveResults' /\ ~showProductInput'
         ELSE currentQuestion' = currentQuestion + 1 /\ ~showUserForm'
      /\ questionNumber = 4 => IssuedBatch = 1
      /\ questionNumber = 9 => IssuedBatch = 2
      /\ questionNumber = 14 => IssuedBatch = 3

\* the session has not used up the model's request bound
RequestBudgetLeft ==
  currentQuestion + 1 \in {4, 9, 14} => Len(requests) < MaxRequests

\* C4: in the question view the current question can always be answered,
\* and the answer is recorded, moves on (to the next question, or to the
\* user form from the last one) and triggers the batch of its milestone,
\* whatever the state of the insight requests: none made, in flight or failed.
C4_AnswerNeverBlocked ==
  (~showComprehensiveResults /\ ~showProductInput /\ ~showUserForm /\ RequestBudgetLeft)
    => ENABLED (\E value \in Ratings : handleResponsePage(value) /\ AnswerTakesEffect(value))

\* C4 witness: batch 1 failed, batch 2 is in flight, the indicator is on,
\* and the user is on a later question of the question view.
C4_Witness ==
  /\ Step = "Assessment"
  /\ Failed(1) /\ ~Succeeded(1)
  /\ Pending(2)
  /\ isGeneratingInsight
  /\ currentQuestion = 10

DisplayedMilestone ==
  IF OverlayView = "insight" THEN currentInsight.milestone ELSE 0

C7_NoLocalInsightForBatch1 ==
  /\ \A n \in 1..Len(aiInsights) :
       aiInsights[n].batchNumber = 1 => requests[aiInsights[n].req].status = "ok"
  /\ ~Succeeded(1) => ~Stored(1)
  /\ (Step = "Assessment" /\ Cardinality(DOMAIN responses) \in 4..6 /\ ~Stored(1))
       => (currentInsight = Null /\ OverlayView \in {"loading", "none"})
  /\ (currentInsight # Null /\ currentInsight.milestone = 25) => currentInsight.source = "ai"

\* C7 witness: batch 1 failed, its milestone is the current one, nothing is
\* stored and the overlay shows nothing.
C7_Witness ==
  /\ Step = "Assessment"
  /\ Cardinality(DOMAIN responses) = 6
  /\ Failed(1) /\ ~Pending(1) /\ ~Succeeded(1)
  /\ aiInsights = <<>>
  /\ OverlayView = "none"

\* C8: the payload of the request issued for batch k holds, for every
\* question of the batch's slice (1-4, 5-9, 10-14), the response recorded
\* at that moment, the answer that reached the milestone included.
C8_PayloadHoldsRecordedResponses ==
  [][ IssuedBatch # 0 =>
        LET payload == requests'[Len(requests')].responses
            slice == IF IssuedBatch = 1 THEN 1..4 ELSE IF IssuedBatch = 2 THEN 5..9 ELSE 10..14
        IN  \A q \in slice : q \in DOMAIN responses' /\ payload[q] = responses'[q] ]_vars

StepRank(step) ==
  IF step = "ProductInput" THEN 0
  ELSE IF step = "Assessment" THEN 1
  ELSE IF step = "UserInfo" THEN 2
  ELSE 3

\* C9: every step of the session keeps the wizard step or moves it to the
\* next one of ProductInput, Assessment, UserInfo, Results; the question
\* index changes only inside Assessment, by one question at a time.
C9_StepOnlyForward ==
  [][ /\ StepRank(Step') \in {StepRank(Step), StepRank(Step) + 1}
      /\ currentQuestion' # currentQuestion =>
           /\ Step = "Assessment" /\ Step' = "Assessment"
           /\ currentQuestion' \in {currentQuestion - 1, currentQuestion + 1} ]_vars

\* C9 witness: Results reached with user info given and all questions answered.
C9_Witness ==
  /\ Step = "Results"
  /\ userInfo = "set"
  /\ Cardinality(DOMAIN responses) = 14
  /\ currentQuestion = 13

\* C10: every key of questionTimings is a key of responses, every key of
\* responses is the id of a catalog question, and every recorded response
\* is one of 1, 2, 3, 4.
C10_ResponsesWellFormed ==
  /\ DOMAIN questionTimings \subseteq DOMAIN responses
  /\ DOMAIN responses \subseteq 1..14
  /\ \A q \in DOMAIN responses : responses[q] \in {1, 2, 3, 4}

\* C10 witness: all fourteen questions answered and timed, question 4 with
\* the lowest rating.
C10_Witness ==
  /\ DOMAIN responses = 1..14
  /\ DOMAIN questionTimings = 1..14
  /\ responses[4] = 1

\* C11: a call of handleResponse with a value outside 1..4 changes nothing:
\* responses, questionTimings, the question index and the step are as they
\* were before the call, and no insight request is issued.
C11_OutOfScaleChangesNothing ==
  [][ (\E value \in OutOfScale : handleResponse(value))
        => UNCHANGED <<responses, questionTimings, currentQuestion, showProductInput,
                       showUserForm, showComprehensiveResults, requests>> ]_vars

\* C12: the timing recorded for an answered question is the time between
\* the moment that question most recently became the current one (the
\* product form's submit for the first question, the re-entry for a
\* question reached with Previous) and the moment of the answer.
C12_TimingSinceQuestionShown ==
  [][ AnswerStep => questionTimings'[currentQuestion + 1] = now - questionShownAt ]_vars

\* C13: submitting the product form records productInfo and opens the
\* question view at question index 0 at once, whatever becomes of the
\* asynchronous generation it starts; when that generation fails (or while
\* it has not settled) the session stays where the user took it: no step of
\* the generation changes the view, the index, productInfo or the answers.
C13_SubmitNeverWaitsForGeneration ==
  /\ [][ productInfo' # productInfo =>
           /\ Step = "ProductInput"
           /\ productInfo' = "set"
           /\ Step' = "Assessment"
           /\ currentQuestion' = 0
           /\ generation' = "importing" ]_vars
  /\ [][ (generation # "none" /\ generation' # generation) =>
           /\ generation' \in GenerationOutcomes
           /\ Step' = Step
           /\ UNCHANGED <<productInfo, currentQuestion, responses, questionTimings>> ]_vars
  /\ [](generation # "none" => (productInfo = "set" /\ Step # "ProductInput"))

\* C13 witness: the generation has failed on the out-of-scope name and the
\* user is on the third question of the question view.
C13_Witness ==
  /\ generation = "referenceError"
  /\ Step = "Assessment"
  /\ productInfo = "set"
  /\ currentQuestion = 2

CategoryQuestions(category) ==
  {q \in 1..NumQuestions : assessmentQuestions[q].category = category}

\* the sum over the questions S of (response / 4) * weight in exact
\* arithmetic, in units of 1/400; an unanswered question adds 0
RECURSIVE ExactPoints(_, _)
ExactPoints(S, resp) ==
  IF S = {} THEN 0
  ELSE LET q == CHOOSE x \in S : TRUE
       IN  GetOr0(resp, q) * assessmentQuestions[q].weight + ExactPoints(S \ {q}, resp)

\* round(n / d), a half rounded up
RoundHalfUp(n, d) == (2 * n + d) \div (2 * d)

\* calculateScore has returned
Scored == call.fn = "calculateScore" /\ "result" \in DOMAIN call

AllFours == [q \in 1..NumQuestions |-> TopRating]

\* C15: for every partial or complete response map, calculateScore returns
\* buyerScore = round(buyerTotal), techScore = round(techTotal) and
\* overallScore = round(buyerTotal + techTotal), each category total being
\* the sum over its questions of (response / 4) * weight and an
\* unanswered question counting 0.
C15_ScoresAreRoundedWeightedSums ==
  Scored =>
    LET buyerTotal == ExactPoints(CategoryQuestions("buyer"), call.args)
        techTotal == ExactPoints(CategoryQuestions("tech"), call.args)
    IN  /\ call.result.buyerScore = RoundHalfUp(buyerTotal, 400)
        /\ call.result.techScore = RoundHalfUp(techTotal, 400)
        /\ call.result.overallScore = RoundHalfUp(buyerTotal + techTotal, 400)

\* C16 as stated: the overall score is the sum of the buyer score and the
\* tech score.
C16_OverallIsSumOfScores ==
  Scored => call.result.overallScore = call.result.buyerScore + call.result.techScore

\* C16 amended: the overall score is the rounding of the unrounded sum of
\* the two totals: it is within one half of that sum, and it is the sum of
\* the buyer score and the tech score or one less.
C16_OverallIsRoundedSumOfTotals ==
  Scored =>
    LET total == ExactPoints(1..NumQuestions, call.args)
        overallScore == call.result.overallScore
    IN  /\ 400 * overallScore - 200 <= total
        /\ total <= 400 * overallScore + 200
        /\ overallScore - (call.result.buyerScore + call.result.techScore) \in {-1, 0}

\* C16 witness: a score whose overall score is one less than the sum of
\* its two parts.
C16_Witness ==
  /\ Scored
  /\ call.result.overallScore = call.result.buyerScore + call.result.techScore - 1

\* C17: the qualification is Qualified exactly when the overall score is
\* at least 80, Promising exactly from 60 to 79, Developing exactly from 40
\* to 59, and Early Stage exactly below 40.
C17_QualificationByThresholds ==
  Scored =>
    LET overallScore == call.result.overallScore
        qualified == call.result.qualification
    IN  /\ qualified = "Qualified" <=> overallScore >= 80
        /\ qualified = "Promising" <=> (60 <= overallScore /\ overallScore < 80)
        /\ qualified = "Developing" <=> (40 <= overallScore /\ overallScore < 60)
        /\ qualified = "Early Stage" <=> overallScore < 40

\* C17 witness: a response map scored 80 and qualified.
C17_Witness ==
  /\ Scored
  /\ call.result.overallScore = 80
  /\ call.result.qualification = "Qualified"

\* C18 as stated: overall score 79 gives Developing, 80 Qualified, 59
\* Developing, 60 Promising, 39 Early Stage, 40 Developing.
C18_BoundaryQualifications ==
  Scored =>
    LET overallScore == call.result.overallScore
        qualified == call.result.qualification
    IN  /\ overallScore = 79 => qualified = "Developing"
        /\ overallScore = 80 => qualified = "Qualified"
        /\ overallScore = 59 => qualified = "Developing"
        /\ overallScore = 60 => qualified = "Promising"
        /\ overallScore = 39 => qualified = "Early Stage"
        /\ overallScore = 40 => qualified = "Developing"

\* C18 amended: overall score 79 gives Promising; 80 Qualified, 59
\* Developing, 60 Promising, 39 Early Stage, 40 Developing.
C18_BoundaryQualificationsWith79Promising ==
  Scored =>
    LET overallScore == call.result.overallScore
        qualified == call.result.qualification
    IN  /\ overallScore = 79 => qualified = "Promising"
        /\ overallScore = 80 => qualified = "Qualified"
        /\ overallScore = 59 => qualified = "Developing"
        /\ overallScore = 60 => qualified = "Promising"
        /\ overallScore = 39 => qualified = "Early Stage"
        /\ overallScore = 40 => qualified = "Developing"

\* C18 witness: a response map scored 79, which is Promising.
C18_Witness ==
  /\ Scored
  /\ call.result.overallScore = 79
  /\ call.result.qualification = "Promising"

GapComputed == call.fn = "calculateBuyerGap" /\ "result" \in DOMAIN call

\* C20: for every pair of texts, also when one or both are empty or hold
\* no word longer than 3 characters, calculateBuyerGap returns an integer
\* from 15 to 75, and it returns 75 whenever either word list is empty.
C20_GapBetween15And75 ==
  GapComputed =>
    /\ ~call.result.isNaN
    /\ call.result.value \in 15..75
    /\ (LongWords(call.args[1]) = <<>> \/ LongWords(call.args[2]) = <<>>)
         => call.result.value = 75

\* the words of the first text that match some word of the second, one
\* being a substring of the other
MatchingWords(userWords, aiWords) ==
  SelectSeq(userWords, LAMBDA word :
    \E k \in 1..Len(aiWords) :
      includes(aiWords[k], word) \/ includes(word, aiWords[k]))

Clamp(low, high, value) ==
  IF value < low THEN low ELSE IF value > high THEN high ELSE value

\* C21: the overlap ratio is the number of the user's words (longer than 3
\* characters) matching some generated word by substring in either
\* direction, divided by the number of the user's words, and the result is
\* round((1 - ratio) * 100) clamped to 15..75.
C21_RatioOverUserWords ==
  (GapComputed /\ LongWords(call.args[1]) # <<>>) =>
    LET userWords == LongWords(call.args[1])
        aiWords == LongWords(call.args[2])
        matching == Len(MatchingWords(userWords, aiWords))
    IN  call.result = Integer(Clamp(15, 75, RoundedGap(matching, Len(userWords))))

\* ------------------------------------------------------ AssessmentResults
\* AssessmentResults has computed its lists
Rendered == call.fn = "AssessmentResults" /\ "result" \in DOMAIN call

RuleOf(name) ==
  IF name \in {"Buyer Profile Misalignment", "Enterprise Buyer Complexity",
               "Technical Buyer Translation", "Economic Buyer Justification"} THEN 1
  ELSE IF name = "Revenue Foundation Building" THEN 2
  ELSE IF name \in {"Customer Empathy Development", "Technical Value Communication"} THEN 3
  ELSE IF name = "Decision Confidence" THEN 4
  ELSE IF name = "Mastery Optimization" THEN 5
  ELSE 6

\* the rules 1-5 that fire on these props, in their order
FiredRules(results, timings, content) ==
  LET difference == AbsDifference(results.buyerScore, results.techScore)
      mean2n == 2 * SumOver(timings, DOMAIN timings)
      n == Cardinality(DOMAIN timings)
      slower == {q \in DOMAIN timings : 2 * n * 2 * timings[q] > 3 * mean2n}
      fires == [rule \in 1..5 |->
                  CASE rule = 1 -> OrZero(content.buyerGap) > 60
                    [] rule = 2 -> results.overallScore < 70
                    [] rule = 3 -> difference > 15
                    [] rule = 4 -> Cardinality(slower) >= 2
                    [] rule = 5 -> results.overallScore >= 80]
  IN  SelectSeq(<<1, 2, 3, 4, 5>>, LAMBDA rule : fires[rule])

C24_AtMostTwoHiddenInsights ==
  Rendered => Len(call.result.hiddenInsights) \in 0..2

\* ------------------------------------------------------------------ home
\* C25: a failure of a record-store call (startAssessment rejecting or
\* answering success = false) never keeps the user from going through the
\* assessment to the results: once the call of the start button has failed,
\* the assessment page is open.
C25_StoreFailureDoesNotBlock ==
  startAssessmentCall \in {"unsuccessful", "rejected"} => location = "assessment"

\* ------------------------------------------------------------ ApiService
\* a method of ApiService has settled
ApiSettled == call.fn \in ApiMethods /\ "result" \in DOMAIN call

\* the response of the call was ok and its body a JSON text
AnsweredOk ==
  /\ ApiSettled
  /\ call.args[3].kind = "response"
  /\ call.args[3].ok
  /\ JSONparse(call.args[3].text).error = "none"

\* C26: for every call of ApiService whose response is ok, exactly one
\* fetch is issued, to the base URL followed by the method's endpoint
\* ('/api/assessment/start' with method POST and the JSON text of the
\* argument as body; '/api/health' with neither), with the header
\* Content-Type: application/json, and the call resolves to the parsed
\* body of the response.
C26_OneFetchToEndpoint ==
  AnsweredOk =>
    LET argument == call.args[1]
        base == IF call.args[2] = "" THEN "http://localhost:3001" ELSE call.args[2]
        sent == call.result.fetches
        posts == call.fn \in {"startAssessment", "submitAssessment"}
    IN  /\ Len(sent) = 1
        /\ sent[1].url =
             CASE call.fn = "startAssessment" -> <<base, "/api/assessment/start">>
               [] call.fn = "submitAssessment" -> <<base, "/api/assessment/submit">>
               [] call.fn = "getWelcomeData" -> <<base, "/api/welcome/", argument>>
               [] call.fn = "getHealth" -> <<base, "/api/health">>
        /\ DOMAIN sent[1].options =
             IF posts THEN {"method", "body", "headers"} ELSE {"headers"}
        /\ posts => /\ sent[1].options["method"] = "POST"
                    /\ sent[1].options["body"] = JSONstringify(argument)
        /\ DOMAIN sent[1].options["headers"] = {"Content-Type"}
        /\ sent[1].options["headers"]["Content-Type"] = "application/json"
        /\ call.result.state = "resolved"
        /\ call.result.value = JSONparse(call.args[3].text).value

\* C26 witness: startAssessment, with the environment variable unset, was
\* answered ok with success true and a session id, and resolved to that
\* object.
C26_Witness ==
  /\ AnsweredOk
  /\ call.fn = "startAssessment"
  /\ call.args[2] = ""
  /\ call.result.fetches[1].url = <<"http://localhost:3001", "/api/assessment/start">>
  /\ Len(call.result.fetches[1].options["body"]) = 9
  /\ call.result.value =
       <<<<"success", JSBoolean(TRUE)>>, <<"sessionId", JSString("A1")>>>>

\* ------------------------------------------------------------- Previous
\* C27: Previous lowers the question index by exactly 1 when it is greater
\* than 0 and does nothing when it is 0; either way the step, responses,
\* questionTimings and the insights are unchanged, and across any sequence
\* of answers and Previous the index stays within 0..13.
C27_PreviousLowersIndexByOne ==
  /\ [](currentQuestion \in 0..(NumQuestions - 1))
  /\ [][ handlePrevious =>
           /\ currentQuestion' = IF currentQuestion > 0 THEN currentQuestion - 1 ELSE 0
           /\ Step' = Step
           /\ UNCHANGED <<responses, questionTimings, aiInsights>> ]_vars

\* C27 witness: two questions are answered and Previous has led back to
\* the first one.
C27_Witness ==
  /\ Step = "Assessment"
  /\ AnsweredQuestions(responses) = 2
  /\ currentQuestion = 0

\* ------------------------------------------------------------- insights
\* the insights stored in a list
InsightsIn(insights) == {insights[i] : i \in 1..Len(insights)}

\* C28: an insight stored in aiInsights stays there for the rest of the
\* session: no later resolution of another batch's request, in whatever
\* order the requests complete and however they overlapped, removes or
\* replaces it.
C28_StoredInsightStays ==
  [][ \A insight \in InsightsIn(aiInsights) :
        (\A i \in 1..Len(requests) :
           requests'[i].status # requests[i].status
             => requests[i].batchNumber # insight.batchNumber)
          => insight \in InsightsIn(aiInsights') ]_vars

\* C29: isGeneratingInsight is true in every state in which at least one
\* batch request has been issued and has not resolved, and false in every
\* state in which no request is outstanding.
C29_IndicatorTracksPendingRequests ==
  isGeneratingInsight = (\E i \in 1..Len(requests) : requests[i].status = "pending")

\* -------------------------------------------------------------- results
\* C30: whenever the session is in the UserInfo or the Results step, all 14
\* questions of the catalog have a recorded response; the results are never
\* rendered for an empty or partial response map.
C30_LateStepsHaveAllResponses ==
  Step \in {"UserInfo", "Results"} => DOMAIN responses = 1..NumQuestions

\* C30 witness: the results are rendered with all 14 responses recorded,
\* question 4 answered 1, after three insight requests.
C30_Witness ==
  /\ Step = "Results"
  /\ DOMAIN responses = 1..NumQuestions
  /\ responses[4] = 1
  /\ Len(requests) = 3

====
